---- MODULE Spec2Model ----
(***************************************************************************)
(* A model of git-tools.py: main's argument handling, the construction of  *)
(* GitTools (configuration load), and the three operations clone, update   *)
(* and status, each a loop over the configured repositories that invokes   *)
(* git through _run_command.                                               *)
(*                                                                         *)
(* The filesystem and the git child processes are the environment.  A      *)
(* child process ends in one of four ways (exit status 0, another exit     *)
(* status, the 300 s timeout, an invocation error); which one is chosen    *)
(* freely at every invocation.  A git command that ends with status 0 has  *)
(* its effect on the checkout; any other ending leaves the checkout as it  *)
(* was.                                                                    *)
(*                                                                         *)
(* Text (stdout, stderr, messages) is a sequence of tokens; " " and "\n"   *)
(* are the whitespace tokens that str.strip() removes.                     *)
(***************************************************************************)
EXTENDS Integers, Sequences, FiniteSets, TLC

\* ------------------------------------------------------------------ bounds
MaxArgs == 2
MaxRepos == 2
MaxRuns == 2

Names == {"a", "b"}
Tokens == {"clone", "update", "status", "help", "-h", "--help", "-v", "--verbose", "bogus"}

SeqsUpTo(S, n) == UNION {[1..k -> S] : k \in 0..n}

\* ------------------------------------------------------- program constants
HelpAliases == {"-h", "--help", "help"}
VerboseFlags == {"-v", "--verbose"}
ValidCommands == {"clone", "update", "status"}
Whitespace == {" ", "\n"}
TimeoutText == <<"Command timeout">>

ZeroCount == [success_count |-> 0, skip_count |-> 0, error_count |-> 0]
NoSummary == [emitted |-> FALSE, counts |-> ZeroCount]
Summary(c) == [emitted |-> TRUE, counts |-> c]

\* ------------------------------------------------------------------- text
RECURSIVE LStrip(_)
LStrip(s) == IF s # <<>> /\ Head(s) \in Whitespace THEN LStrip(Tail(s)) ELSE s

RECURSIVE RStrip(_)
RStrip(s) ==
  IF s # <<>> /\ s[Len(s)] \in Whitespace THEN RStrip(SubSeq(s, 1, Len(s) - 1)) ELSE s

\* str.strip()
Strip(s) == RStrip(LStrip(s))

\* truth value of a str
Truthy(s) == s # <<>>

\* [arg for arg in args if arg not in ["-v", "--verbose"]]
RECURSIVE WithoutVerbose(_)
WithoutVerbose(args) ==
  IF args = <<>> THEN <<>>
  ELSE IF Head(args) \in VerboseFlags THEN WithoutVerbose(Tail(args))
  ELSE <<Head(args)>> \o WithoutVerbose(Tail(args))

\* ------------------------------------------------------------ environment
\* The ways a child process can end, with what it wrote.
Proc(kind, stdout, stderr) == [kind |-> kind, stdout |-> stdout, stderr |-> stderr]

Failures(outs) ==
  {Proc("nonzero", o, <<"fatal", "\n">>) : o \in outs}
    \cup {Proc("timeout", <<>>, <<>>), Proc("error", <<>>, <<"ENOENT">>)}

CloneResults == {Proc("exit0", <<>>, <<"Cloning", "\n">>)} \cup Failures({<<>>})

CheckoutResults == {Proc("exit0", <<>>, <<"Switched", "\n">>)} \cup Failures({<<>>})

PullResults == {Proc("exit0", <<"Already", " ", "up", "\n">>, <<>>)} \cup Failures({<<>>})

\* git status --porcelain prints one line per modified path and nothing for
\* a clean tree when it ends with status 0.
StatusResults(dirty) ==
  {Proc("exit0", o, <<>>) : o \in (IF dirty THEN {<<" ", "M", "\n">>} ELSE {<<>>})}
    \cup Failures({<<>>, <<" ", "M", "\n">>})

\* git branch --show-current prints the branch name.
BranchResults(branch) == {Proc("exit0", <<branch, "\n">>, <<>>)} \cup Failures({<<>>})

Branches == {"none", "topic", "main", "master"}

\* One repository directory under the checkout directory.
NoRepo == [path |-> "absent", dirty |-> FALSE, branch |-> "none", rev |-> 0]
Cloned == [path |-> "git", dirty |-> FALSE, branch |-> "main", rev |-> 0]

RepoStates ==
  {NoRepo, [NoRepo EXCEPT !.path = "plain"]}
    \cup {[path |-> "git", dirty |-> d, branch |-> b, rev |-> 0] :
            d \in BOOLEAN, b \in {"topic"}}

\* dir: the checkout directory ("blocked": it cannot be created).
FsStates ==
  {[dir |-> "dir", repo |-> f] : f \in [Names -> RepoStates]}
    \cup {[dir |-> d, repo |-> [n \in Names |-> NoRepo]] : d \in {"absent", "blocked"}}

\* repositories.json: absent, not JSON, JSON that is no object, or an object.
ConfigFiles(repoLists) ==
  {[kind |-> k, doc |-> <<>>] : k \in {"missing", "invalid", "nonobject"}}
    \cup {[kind |-> "object", doc |-> <<>>]}
    \cup {[kind |-> "object", doc |-> <<l>>] : l \in repoLists}

VARIABLES
  argv,          \* sys.argv[1:]
  configFile,    \* repositories.json
  fs,            \* the checkout directory and the repositories in it
  pc,            \* where the process is
  mode,          \* main's mode
  verbose,       \* main's verbose
  printed,       \* what main printed: "none", "help" or "error"
  exitCode,      \* -1 while the process runs
  exitVia,       \* "none", "sys.exit", "uncaught" or "return"
  configOpened,  \* open(self.config_file) was called
  constructed,   \* GitTools() returned
  loggerReady,   \* self.logger is set
  repositories,  \* self.repositories
  idx,           \* position of the for loop, 1-based
  count,         \* success_count, skip_count, error_count
  lastCmds,      \* the commands run for the repository processed last
  log,           \* the lines logged for the repository processed last
  processed,     \* the repositories the loop has handled, in order
  summary,       \* the counts of the final summary line
  invoked,       \* a child process was started by this process
  run,           \* number of the invocation of the program
  fsStart,       \* fs when this invocation started
  prevErrors     \* error_count of the previous invocation's summary

vars ==
  <<argv, configFile, fs, pc, mode, verbose, printed, exitCode, exitVia,
    configOpened, constructed, loggerReady, repositories, idx, count, lastCmds,
    log, processed, summary, invoked, run, fsStart, prevErrors>>

inputs == <<argv, configFile>>
\* what an operation of GitTools leaves alone
opVars ==
  <<argv, configFile, mode, verbose, printed, configOpened, constructed, loggerReady,
    repositories, run, fsStart, prevErrors>>
loopVars == <<idx, count, lastCmds, log, processed, summary, invoked>>
runVars == <<run, fsStart, prevErrors>>

InitWith(argvs, configs, fss) ==
  /\ argv \in argvs
  /\ configFile \in configs
  /\ fs \in fss
  /\ pc = "main"
  /\ mode = "none"
  /\ verbose = FALSE
  /\ printed = "none"
  /\ exitCode = -1
  /\ exitVia = "none"
  /\ configOpened = FALSE
  /\ constructed = FALSE
  /\ loggerReady = FALSE
  /\ repositories = <<>>
  /\ idx = 1
  /\ count = ZeroCount
  /\ lastCmds = <<>>
  /\ log = <<>>
  /\ processed = <<>>
  /\ summary = NoSummary
  /\ invoked = FALSE
  /\ run = 1
  /\ fsStart = fs
  /\ prevErrors = 0

\* ------------------------------------------------------------------- main
\* What main decides from the arguments.
\* Faulty variant: any first word is taken as the command.
IsValidCommand_AnyWord(rest) == rest # <<>>

\* the command is valid: not (not args or args[0] not in [...])
IsValidCommand(rest) == rest # <<>> /\ rest[1] \in ValidCommands

ParseArgs(args) ==
  IF args = <<>> \/ args[1] \in HelpAliases
  THEN [action |-> "help", mode |-> "none", verbose |-> FALSE]
  ELSE LET v == \E i \in 1..Len(args) : args[i] \in VerboseFlags
           rest == IF v THEN WithoutVerbose(args) ELSE args
       IN IF ~IsValidCommand(rest)
          THEN [action |-> "error", mode |-> "none", verbose |-> v]
          ELSE [action |-> "run", mode |-> rest[1], verbose |-> v]

Exit(code, via) ==
  /\ pc' = "exit"
  /\ exitCode' = code
  /\ exitVia' = via

Main ==
  /\ pc = "main"
  /\ LET p == ParseArgs(argv) IN
       /\ mode' = p.mode
       /\ verbose' = p.verbose
       /\ IF p.action = "help" THEN printed' = "help" /\ Exit(0, "sys.exit")
          ELSE IF p.action = "error" THEN printed' = "error" /\ Exit(1, "sys.exit")
          ELSE printed' = "none" /\ pc' = "construct" /\ UNCHANGED <<exitCode, exitVia>>
  /\ UNCHANGED <<inputs, fs, configOpened, constructed, loggerReady, repositories,
                 loopVars, runVars>>

\* ------------------------------------------------------- GitTools.__init__
\* Faulty variant: a file that is missing or not JSON yields an empty configuration.
LoadConfig_EmptyOnError(file) ==
  IF file.kind \in {"missing", "invalid"}
  THEN [raised |-> "none", isDict |-> TRUE, config |-> <<>>]
  ELSE [raised |-> "none", isDict |-> file.kind = "object", config |-> file.doc]

\* json.load(open(...)): the parsed document, or the exception raised.
LoadConfig(file) ==
  IF file.kind = "missing"
  THEN [raised |-> "FileNotFoundError", isDict |-> FALSE, config |-> <<>>]
  ELSE IF file.kind = "invalid"
  THEN [raised |-> "JSONDecodeError", isDict |-> FALSE, config |-> <<>>]
  ELSE [raised |-> "none", isDict |-> file.kind = "object", config |-> file.doc]

\* self.config.get("repositories", [])
GetRepositories(config) == IF config = <<>> THEN <<>> ELSE config[1]

BeginOf(m) ==
  IF m = "clone" THEN "clone_begin" ELSE IF m = "update" THEN "update_begin" ELSE "status_begin"

Construct ==
  /\ pc = "construct"
  /\ configOpened' = TRUE
  /\ LET c == LoadConfig(configFile) IN
       IF c.raised # "none"
       THEN \* the handler calls self.logger.error before self.logger is set:
            \* AttributeError, which nothing catches
            /\ IF loggerReady THEN Exit(1, "sys.exit") ELSE Exit(1, "uncaught")
            /\ UNCHANGED <<constructed, loggerReady, repositories>>
       ELSE IF ~c.isDict
       THEN \* self.config.get on a value that is no dict
            /\ Exit(1, "uncaught")
            /\ UNCHANGED <<constructed, loggerReady, repositories>>
       ELSE /\ repositories' = GetRepositories(c.config)
            /\ loggerReady' = TRUE
            /\ constructed' = TRUE
            /\ IF mode \in ValidCommands
               THEN pc' = BeginOf(mode) /\ UNCHANGED <<exitCode, exitVia>>
               ELSE Exit(0, "return")
  /\ UNCHANGED <<inputs, fs, mode, verbose, printed, loopVars, runVars>>

\* ------------------------------------------------------------ _run_command
\* Faulty variant: only subprocess.TimeoutExpired is caught, so an invocation error
\* leaves _run_command as an exception.
RunCommand_OnlyTimeoutCaught(p) ==
  IF p.kind = "timeout"
  THEN [raised |-> FALSE, success |-> FALSE, out |-> <<>>, err |-> TimeoutText]
  ELSE IF p.kind = "error"
  THEN [raised |-> TRUE, success |-> FALSE, out |-> <<>>, err |-> p.stderr]
  ELSE [raised |-> FALSE, success |-> p.kind = "exit0",
        out |-> Strip(p.stdout), err |-> Strip(p.stderr)]

\* (success, output, error) of one child process; nothing is raised.  For
\* kind "error" the process record's stderr field holds str(e).
RunCommand(p) ==
  IF p.kind = "timeout"
  THEN [raised |-> FALSE, success |-> FALSE, out |-> <<>>, err |-> TimeoutText]
  ELSE IF p.kind = "error"
  THEN [raised |-> FALSE, success |-> FALSE, out |-> <<>>, err |-> p.stderr]
  ELSE [raised |-> FALSE, success |-> p.kind = "exit0",
        out |-> Strip(p.stdout), err |-> Strip(p.stderr)]

\* One entry of lastCmds: the command, how its process ended, what came back.
Cmd(name, p) ==
  LET r == RunCommand(p) IN
    [cmd |-> name, kind |-> p.kind, raised |-> r.raised, success |-> r.success,
     out |-> r.out, err |-> r.err]

Line(level, msg, text) == [level |-> level, msg |-> msg, text |-> text]

\* Faulty variant: the repository is looked for under the current directory, where
\* there is none, instead of under the checkout directory.
RepoExists_OutsideCheckoutDir(f, name) == f.repo[name].path = "git" /\ f.dir = "cwd"

\* repo_path.exists() and (repo_path / '.git').exists()
RepoExists(f, name) == f.repo[name].path # "absent" /\ f.repo[name].path = "git"

Raised(cmds) == \E i \in 1..Len(cmds) : cmds[i].raised

Crash ==
  /\ Exit(1, "uncaught")
  /\ UNCHANGED <<fs, idx, count, log, processed, summary>>

\* ------------------------------------------------------ clone_repositories
CloneBegin ==
  /\ pc = "clone_begin"
  /\ IF fs.dir = "blocked"
     THEN \* mkdir raises
          /\ Exit(1, "uncaught")
          /\ UNCHANGED fs
     ELSE /\ fs' = [fs EXCEPT !.dir = "dir"]
          /\ pc' = "clone_loop"
          /\ UNCHANGED <<exitCode, exitVia>>
  /\ count' = ZeroCount
  /\ UNCHANGED <<opVars, idx, lastCmds, log, processed, summary, invoked>>

\* The body of the loop for one repository.
CloneRepo(exists, p) ==
  IF exists
  THEN [cmds |-> <<>>, outcome |-> "skipped",
        log |-> <<Line("info", "already exists, skipping", <<>>)>>]
  ELSE LET c == Cmd("clone", p) IN
         IF c.success
         THEN [cmds |-> <<c>>, outcome |-> "cloned",
               log |-> <<Line("info", "Successfully cloned", <<>>)>>]
         ELSE [cmds |-> <<c>>, outcome |-> "failed",
               log |-> <<Line("error", "Failed to clone", c.err)>>]

\* Every way the body can go, over the ways the child process can end.
CloneOutcomes == [e \in BOOLEAN |-> {CloneRepo(e, p) : p \in CloneResults}]

CloneTally(c, outcome) ==
  IF outcome = "skipped" THEN [c EXCEPT !.skip_count = @ + 1]
  ELSE IF outcome = "cloned" THEN [c EXCEPT !.success_count = @ + 1]
  ELSE [c EXCEPT !.error_count = @ + 1]

\* for repo in self.repositories: the next repository is taken up.
CloneNext ==
  /\ pc = "clone_loop"
  /\ idx <= Len(repositories)
  /\ pc' = "clone_body"
  /\ lastCmds' = <<>>
  /\ log' = <<Line("info", "Processing repository", <<repositories[idx]>>)>>
  /\ UNCHANGED <<opVars, fs, exitCode, exitVia, idx, count, processed, summary, invoked>>

CloneStep ==
  /\ pc = "clone_body"
  /\ LET repo == repositories[idx] IN
     \E r \in CloneOutcomes[RepoExists(fs, repo)] :
       /\ lastCmds' = r.cmds
       /\ invoked' = (invoked \/ r.cmds # <<>>)
       /\ IF Raised(r.cmds) THEN Crash
          ELSE /\ fs' = IF r.outcome = "cloned"
                        THEN [fs EXCEPT !.repo[repo] = Cloned] ELSE fs
               /\ count' = CloneTally(count, r.outcome)
               /\ log' = log \o r.log
               /\ processed' = Append(processed, repo)
               /\ idx' = idx + 1
               /\ pc' = "clone_loop"
               /\ UNCHANGED <<exitCode, exitVia, summary>>
  /\ UNCHANGED opVars

CloneEnd ==
  /\ pc = "clone_loop"
  /\ idx > Len(repositories)
  /\ summary' = Summary(count)
  /\ Exit(0, "return")
  /\ UNCHANGED <<opVars, fs, idx, count, lastCmds, log, processed, invoked>>

\* ----------------------------------------------------- update_repositories
UpdateBegin ==
  /\ pc = "update_begin"
  /\ count' = ZeroCount
  /\ pc' = "update_loop"
  /\ UNCHANGED <<opVars, fs, exitCode, exitVia, idx, lastCmds, log, processed, summary,
                 invoked>>

\* if success and output.strip(), on the result of git status --porcelain
DirtyGuard(st) == st.success /\ Truthy(Strip(st.out))

\* Faulty variant: checkout master is tried whatever checkout main returned.
NeedsMaster_Always(main) == TRUE

\* if not success, on the result of git checkout main
NeedsMaster(main) == ~main.success

\* The body of the loop for one repository; sp, mp, xp and pp are how the
\* processes of status, checkout main, checkout master and pull end, each
\* used only when its command is run.
UpdateRepo(exists, sp, mp, xp, pp) ==
  IF ~exists
  THEN [cmds |-> <<>>, outcome |-> "missing",
        log |-> <<Line("warning", "does not exist, skipping", <<>>)>>]
  ELSE LET st == Cmd("status", sp) IN
    IF DirtyGuard(st)
    THEN [cmds |-> <<st>>, outcome |-> "dirty",
          log |-> <<Line("warning", "has uncommitted changes, skipping update", <<>>)>>]
    ELSE LET main == Cmd("checkout main", mp)
             master == Cmd("checkout master", xp)
             checkouts == IF NeedsMaster(main) THEN <<main, master>> ELSE <<main>>
             last == checkouts[Len(checkouts)]
         IN
      IF ~last.success
      THEN [cmds |-> <<st>> \o checkouts, outcome |-> "nobranch",
            log |-> <<Line("error", "Failed to checkout main/master branch", last.err)>>]
      ELSE LET pull == Cmd("pull", pp) IN
        IF pull.success
        THEN [cmds |-> <<st>> \o checkouts \o <<pull>>, outcome |-> "updated",
              log |-> <<Line("info", "Successfully updated", <<>>)>>]
        ELSE [cmds |-> <<st>> \o checkouts \o <<pull>>, outcome |-> "pullfailed",
              log |-> <<Line("error", "Failed to pull latest changes", pull.err)>>]

\* Every way the body can go, over the ways the child processes can end.
UpdateOutcomes ==
  [e \in BOOLEAN, d \in BOOLEAN |->
     {UpdateRepo(e, sp, mp, xp, pp) :
        sp \in StatusResults(d), mp \in CheckoutResults, xp \in CheckoutResults,
        pp \in PullResults}]

\* Faulty variant: a repository without a local checkout is counted as an error.
UpdateTally_MissingIsError(c, outcome) ==
  IF outcome = "updated" THEN [c EXCEPT !.success_count = @ + 1]
  ELSE [c EXCEPT !.error_count = @ + 1]

UpdateTally(c, outcome) ==
  IF outcome = "missing" THEN c
  ELSE IF outcome = "updated" THEN [c EXCEPT !.success_count = @ + 1]
  ELSE [c EXCEPT !.error_count = @ + 1]

\* What the git commands that ended with status 0 did to the checkout.
RECURSIVE Effects(_, _)
Effects(r, cmds) ==
  IF cmds = <<>> THEN r
  ELSE LET c == Head(cmds)
           r1 == IF ~c.success THEN r
                 ELSE IF c.cmd = "checkout main" THEN [r EXCEPT !.branch = "main"]
                 ELSE IF c.cmd = "checkout master" THEN [r EXCEPT !.branch = "master"]
                 ELSE IF c.cmd = "pull" THEN [r EXCEPT !.rev = @ + 1]
                 ELSE r
       IN Effects(r1, Tail(cmds))

\* for repo in self.repositories: the next repository is taken up.
UpdateNext ==
  /\ pc = "update_loop"
  /\ idx <= Len(repositories)
  /\ pc' = "update_body"
  /\ lastCmds' = <<>>
  /\ log' = <<Line("info", "Updating repository", <<repositories[idx]>>)>>
  /\ UNCHANGED <<opVars, fs, exitCode, exitVia, idx, count, processed, summary, invoked>>

UpdateStep ==
  /\ pc = "update_body"
  /\ LET repo == repositories[idx] IN
     \E r \in UpdateOutcomes[RepoExists(fs, repo), fs.repo[repo].dirty] :
       /\ lastCmds' = r.cmds
       /\ invoked' = (invoked \/ r.cmds # <<>>)
       /\ IF Raised(r.cmds) THEN Crash
          ELSE /\ fs' = [fs EXCEPT !.repo[repo] = Effects(@, r.cmds)]
               /\ count' = UpdateTally(count, r.outcome)
               /\ log' = log \o r.log
               /\ processed' = Append(processed, repo)
               /\ idx' = idx + 1
               /\ pc' = "update_loop"
               /\ UNCHANGED <<exitCode, exitVia, summary>>
  /\ UNCHANGED opVars

UpdateEnd ==
  /\ pc = "update_loop"
  /\ idx > Len(repositories)
  /\ summary' = Summary(count)
  /\ Exit(0, "return")
  /\ UNCHANGED <<opVars, fs, idx, count, lastCmds, log, processed, invoked>>

\* ------------------------------------------------------- list_repositories
StatusBegin ==
  /\ pc = "status_begin"
  /\ log' = <<Line("info", "Repository Status:", <<>>)>>
  /\ pc' = "status_loop"
  /\ UNCHANGED <<opVars, fs, exitCode, exitVia, idx, count, lastCmds, processed, summary,
                 invoked>>

\* Faulty variant: has_changes = status.strip()
HasChanges_IgnoresSuccess(st) == Truthy(Strip(st.out))

\* has_changes = success and status.strip()
HasChanges(st) == st.success /\ Truthy(Strip(st.out))

StatusRepo(exists, bp, sp) ==
  IF ~exists
  THEN [cmds |-> <<>>, log |-> <<Line("info", "NOT FOUND", <<>>)>>]
  ELSE LET b == Cmd("branch", bp)
           branch_info == IF b.success THEN b.out ELSE <<"unknown">>
           st == Cmd("status", sp)
           status_info == IF HasChanges(st) THEN "dirty" ELSE "clean"
       IN [cmds |-> <<b, st>>,
           log |-> <<Line("info", "EXISTS", branch_info \o <<status_info>>)>>]

\* for repo in self.repositories: the next repository is taken up.
StatusNext ==
  /\ pc = "status_loop"
  /\ idx <= Len(repositories)
  /\ pc' = "status_body"
  /\ lastCmds' = <<>>
  /\ log' = <<>>
  /\ UNCHANGED <<opVars, fs, exitCode, exitVia, idx, count, processed, summary, invoked>>

\* Every way the body can go, over the ways the child processes can end.
StatusOutcomes ==
  [e \in BOOLEAN, b \in Branches, d \in BOOLEAN |->
     {StatusRepo(e, bp, sp) : bp \in BranchResults(b), sp \in StatusResults(d)}]

StatusStep ==
  /\ pc = "status_body"
  /\ LET repo == repositories[idx] IN
     \E r \in StatusOutcomes[RepoExists(fs, repo), fs.repo[repo].branch,
                               fs.repo[repo].dirty] :
       /\ lastCmds' = r.cmds
       /\ invoked' = (invoked \/ r.cmds # <<>>)
       /\ IF Raised(r.cmds) THEN Crash
          ELSE /\ log' = log \o r.log
               /\ processed' = Append(processed, repo)
               /\ idx' = idx + 1
               /\ pc' = "status_loop"
               /\ UNCHANGED <<fs, exitCode, exitVia, count, summary>>
  /\ UNCHANGED opVars

StatusEnd ==
  /\ pc = "status_loop"
  /\ idx > Len(repositories)
  /\ Exit(0, "return")
  /\ UNCHANGED <<opVars, fs, idx, count, lastCmds, log, processed, summary, invoked>>

\* ------------------------------------------------------------ the program
\* clone is run again, with the same arguments and configuration, on the
\* filesystem the previous invocation left.
Rerun ==
  /\ pc = "exit"
  /\ exitVia = "return"
  /\ mode = "clone"
  /\ run < MaxRuns
  /\ run' = run + 1
  /\ fsStart' = fs
  /\ prevErrors' = summary.counts.error_count
  /\ pc' = "main"
  /\ mode' = "none"
  /\ verbose' = FALSE
  /\ printed' = "none"
  /\ exitCode' = -1
  /\ exitVia' = "none"
  /\ configOpened' = FALSE
  /\ constructed' = FALSE
  /\ loggerReady' = FALSE
  /\ repositories' = <<>>
  /\ idx' = 1
  /\ count' = ZeroCount
  /\ lastCmds' = <<>>
  /\ log' = <<>>
  /\ processed' = <<>>
  /\ summary' = NoSummary
  /\ invoked' = FALSE
  /\ UNCHANGED <<inputs, fs>>

Next ==
  \/ Main
  \/ Construct
  \/ CloneBegin
  \/ CloneNext
  \/ CloneStep
  \/ CloneEnd
  \/ UpdateBegin
  \/ UpdateNext
  \/ UpdateStep
  \/ UpdateEnd
  \/ StatusBegin
  \/ StatusNext
  \/ StatusStep
  \/ StatusEnd
  \/ Rerun

RepoLists == SeqsUpTo(Names, MaxRepos)

\* The operations on every repository list and filesystem.
Init ==
  InitWith({<<c>> : c \in ValidCommands} \cup {<<"-v", "update">>},
           {[kind |-> "object", doc |-> <<l>>] : l \in RepoLists},
           FsStates)

Spec == Init /\ [][Next]_vars

\* Every argument list and configuration file, on two filesystems.
MainInit ==
  InitWith(SeqsUpTo(Tokens, MaxArgs),
           ConfigFiles({<<>>, <<"a">>}),
           {f \in FsStates : f.dir = "absent"
                             \/ (f.dir = "dir" /\ \A n \in Names : f.repo[n].path = "git"
                                   /\ ~f.repo[n].dirty)})

MainSpec == MainInit /\ [][Next]_vars

\* The process is sequential and each child process ends (the timeout bounds
\* it), so a step that can be taken is taken.
FairSpec == Init /\ [][Next]_vars /\ WF_vars(Next)

\* ============================================================== properties
\* The repository has a local checkout: its directory holds .git.
HasCheckout(name) == fs.repo[name].path = "git"

CmdNames(cmds) == {cmds[i].cmd : i \in 1..Len(cmds)}

\* The entry of cmds for the command named n (a command is run at most once
\* for a repository).
TheCmd(cmds, n) == cmds[CHOOSE i \in 1..Len(cmds) : cmds[i].cmd = n]

Mutating == {"checkout main", "checkout master", "pull"}

Total(c) == c.success_count + c.skip_count + c.error_count

\* How many of the first k configured repositories have no local checkout.
Missing(k) == Cardinality({i \in 1..k : ~HasCheckout(repositories[i])})

\* The loop body of update has just run for an existing repository.
UpdatedExisting ==
  /\ pc = "update_body"
  /\ pc' # pc
  /\ HasCheckout(repositories[idx])

\* C1: in update, a repository whose working tree has uncommitted changes
\* gets no checkout and no pull, its checkout stays as it was and it adds
\* exactly one to the error count, however the child processes end.
C1_DirtyRepoNeverTouched ==
  [][(UpdatedExisting /\ fs.repo[repositories[idx]].dirty)
       => /\ CmdNames(lastCmds') \cap Mutating = {}
          /\ fs' = fs
          /\ count'.error_count = count.error_count + 1
          /\ count'.success_count = count.success_count]_vars

\* C2 as stated: whatever the first run of clone met, a second run of clone
\* leaves the filesystem as the first left it and its summary counts every
\* configured repository as skipped and none as cloned; a repository that
\* has its metadata directory is never cloned and stays as it was.
SecondCloneSkipsAll ==
  /\ fs = fsStart
  /\ summary.counts.skip_count = Len(repositories)
  /\ summary.counts.success_count = 0

ExistingNeverCloned ==
  (pc = "clone_body" /\ pc' # pc /\ HasCheckout(repositories[idx]))
    => (lastCmds' = <<>> /\ fs' = fs /\ count'.skip_count = count.skip_count + 1)

C2_CloneTwiceAlwaysSkipsAll ==
  /\ []((mode = "clone" /\ run >= 2 /\ summary.emitted) => SecondCloneSkipsAll)
  /\ [][ExistingNeverCloned]_vars

\* C2 amended: when the previous run of clone ended with 0 errors, the next
\* run leaves the filesystem as it found it and its summary counts every
\* configured repository as skipped and none as cloned; in every run a
\* repository that has its metadata directory is never cloned, stays as it
\* was and is counted as skipped.
C2_CloneTwiceAfterCleanRun ==
  /\ []((mode = "clone" /\ run >= 2 /\ summary.emitted /\ prevErrors = 0)
          => SecondCloneSkipsAll)
  /\ [][ExistingNeverCloned]_vars

C2_Witness ==
  /\ pc = "exit"
  /\ mode = "clone"
  /\ run = 2
  /\ prevErrors = 0
  /\ summary.emitted
  /\ summary.counts.skip_count = 2
  /\ \E n \in Names : fs.repo[n] = Cloned

\* C3: in clone and update no outcome for a repository stops the loop: the
\* body always hands over to the next repository, the repositories are
\* handled once each in configured order, the first command for a
\* repository depends only on whether its checkout exists, no command is
\* run twice for a repository, and the summary line is always reached.
Bodies == {"clone_body", "update_body"}
Loops == {"clone_loop", "update_loop"}

NoRetry(cmds) == \A i, j \in 1..Len(cmds) : cmds[i].cmd = cmds[j].cmd => i = j

BodyContinues ==
  (pc \in Bodies /\ pc' # pc)
    => /\ pc' \in Loops
       /\ idx' = idx + 1
       /\ processed' = Append(processed, repositories[idx])
       /\ NoRetry(lastCmds')
       /\ IF pc = "clone_body"
          THEN IF HasCheckout(repositories[idx]) THEN lastCmds' = <<>>
               ELSE Len(lastCmds') = 1 /\ lastCmds'[1].cmd = "clone"
          ELSE IF HasCheckout(repositories[idx])
               THEN lastCmds' # <<>> /\ lastCmds'[1].cmd = "status"
               ELSE lastCmds' = <<>>

C3_FailuresNeverStopTheRun ==
  /\ [][BodyContinues]_vars
  /\ [](summary.emitted => processed = repositories)
  /\ []((pc \in Loops \cup Bodies) => (processed = SubSeq(repositories, 1, idx - 1)))
  /\ ((pc \in Loops \cup Bodies) ~> summary.emitted)

C3_Witness ==
  /\ summary.emitted
  /\ Len(repositories) = 2
  /\ processed = repositories
  /\ summary.counts.error_count = 2

\* C4: in update, for an existing repository that passed the dirty guard,
\* checkout master is run only after checkout main failed, pull is run
\* exactly when one of the checkouts succeeded, the result of pull alone
\* decides between updated and errored, and when both checkouts fail the
\* repository is counted as errored once.
Ran(n) == n \in CmdNames(lastCmds')
Ok(n) == Ran(n) /\ TheCmd(lastCmds', n).success

MasterFallback ==
  (UpdatedExisting /\ Ran("checkout main"))
    => /\ lastCmds'[2].cmd = "checkout main"
       /\ Ran("checkout master") <=> (~Ok("checkout main"))
       /\ Ran("checkout master") => lastCmds'[3].cmd = "checkout master"
       /\ Ran("pull") <=> (Ok("checkout main") \/ Ok("checkout master"))
       /\ Ran("pull") => lastCmds'[Len(lastCmds')].cmd = "pull"
       /\ (~Ok("checkout main") /\ Ok("checkout master")) => Ran("pull")
       /\ Ran("pull") =>
            IF Ok("pull")
            THEN /\ count'.success_count = count.success_count + 1
                 /\ count'.error_count = count.error_count
            ELSE /\ count'.success_count = count.success_count
                 /\ count'.error_count = count.error_count + 1
       /\ ~Ran("pull") =>
            /\ count'.success_count = count.success_count
            /\ count'.error_count = count.error_count + 1

C4_MasterFallbackThenPull == [][MasterFallback]_vars

C4_Witness ==
  /\ pc = "update_loop"
  /\ Len(lastCmds) = 4
  /\ ~lastCmds[2].success
  /\ lastCmds[3].cmd = "checkout master"
  /\ lastCmds[3].success
  /\ lastCmds[4].cmd = "pull"
  /\ lastCmds[4].kind = "timeout"
  /\ count.error_count >= 1

\* C5 as stated: status reports dirty exactly when the trimmed output of
\* git status --porcelain is non-blank, whether or not the query succeeded.
StatusReported == pc = "status_loop" /\ Len(lastCmds) = 2
ReportedState == log[Len(log)].text[Len(log[Len(log)].text)]

C6_TimeoutAlwaysReported ==
  \A i \in 1..Len(lastCmds) :
    lastCmds[i].kind = "timeout" => \E j \in 1..Len(log) : log[j].text = TimeoutText

\* C7: with a valid command and a configuration file that is missing or not
\* parseable the process ends with a non-zero exit status, and it has
\* created no directory, started no child process and handled no repository.
C7_BadConfigIsFatal ==
  (ParseArgs(argv).action = "run" /\ configFile.kind \in {"missing", "invalid"}
     /\ pc \notin {"main", "construct"})
    => /\ pc = "exit"
       /\ exitCode > 0
       /\ fs = fsStart
       /\ ~invoked
       /\ ~constructed
       /\ processed = <<>>

C7_Witness ==
  /\ pc = "exit"
  /\ mode = "clone"
  /\ configFile.kind = "invalid"
  /\ fs.dir = "absent"
  /\ configOpened
  /\ exitCode = 1

\* C8: with the verbose options left out of the arguments, no command or a
\* help alias means usage text and exit code 0; and the arguments with and
\* without the verbose options have the same outcome.
C8_VerboseIgnoredEverywhere ==
  pc # "main" =>
    LET a == WithoutVerbose(argv) IN
      /\ (a = <<>> \/ a[1] \in HelpAliases) => (printed = "help" /\ exitCode = 0)
      /\ ParseArgs(argv).action = ParseArgs(a).action
      /\ ParseArgs(argv).mode = ParseArgs(a).mode

\* C9: a command that is neither clone, update, status nor a help alias ends
\* the process with a non-zero exit code; the configuration file is not
\* opened, no GitTools is constructed and no child process is started.
C9_UnknownCommandRejected ==
  LET a == WithoutVerbose(argv) IN
    (pc # "main" /\ a # <<>> /\ a[1] \notin (ValidCommands \cup HelpAliases))
      => /\ pc = "exit"
         /\ exitCode > 0
         /\ printed = "error"
         /\ ~configOpened
         /\ ~constructed
         /\ ~invoked
         /\ fs = fsStart

C9_Witness ==
  /\ pc = "exit"
  /\ argv = <<"-v", "bogus">>
  /\ exitCode = 1

\* C10: the counters account for every repository handled so far: in clone
\* cloned + skipped + errors is the number handled, in update updated +
\* errors is the number handled minus those without a local checkout, which
\* run no command and change no counter; the summary carries these totals
\* for the whole list; no counter decreases during a run.
Accounted ==
  /\ (pc \in {"clone_loop", "clone_body"}) => Total(count) = idx - 1
  /\ (pc \in {"update_loop", "update_body"}) =>
       (count.skip_count = 0 /\ Total(count) = (idx - 1) - Missing(idx - 1))
  /\ (summary.emitted /\ mode = "clone") =>
       (summary.counts = count /\ Total(count) = Len(repositories))
  /\ (summary.emitted /\ mode = "update") =>
       (summary.counts = count /\ Total(count) = Len(repositories) - Missing(Len(repositories)))

CountersGrow ==
  /\ run' = run =>
       /\ count'.success_count >= count.success_count
       /\ count'.skip_count >= count.skip_count
       /\ count'.error_count >= count.error_count
       /\ Total(count') <= Total(count) + 1
  /\ (pc = "update_body" /\ pc' # pc /\ ~HasCheckout(repositories[idx]))
       => (lastCmds' = <<>> /\ count' = count /\ log'[Len(log')].level = "warning")

C10_CountersAccountForAll == []Accounted /\ [][CountersGrow]_vars

C10_Witness ==
  /\ summary.emitted
  /\ mode = "update"
  /\ Len(repositories) = 2
  /\ Missing(2) = 1
  /\ summary.counts.success_count = 1
====
